---------------------------- MODULE Spec2Model ----------------------------
(***************************************************************************)
(* Model of go-gcp-img-meta: the ImgDeduper service (service.go) and the   *)
(* process wiring of main (signal handling, exit codes).                    *)
(*                                                                         *)
(* One or two OS processes, each holding one ImgDeduper instance, work on  *)
(* the same source bucket, the same images table (the index) and the same  *)
(* destination bucket.  A process that has ended may be started again: a   *)
(* fresh instance, a new run.                                              *)
(***************************************************************************)
EXTENDS Integers, Sequences, FiniteSets, Bags, TLC

\* ------------------------------------------------------------------ bounds
MaxObjs  == 3   \* longest source listing
MaxLimit == 2   \* largest -limit flag value tried (0 = unlimited)
MaxRuns  == 3   \* instances constructed in one behaviour, over all processes

\* ------------------------------------------------------------ the data
Procs == {1, 2}

\* Object names as path segments ("A/1/1_1.jpg" is <<"A","1","1_1.jpg">>).
AllNames ==
    << <<"A", "1", "1_1.jpg">>, <<"A", "1", "1_2.jpg">>, <<"A", "2", "2_1.jpg">>,
       <<"B", "1", "1_1.jpg">>, <<"B", "2", "2_1.jpg">> >>

\* Two contents, by checksum (small numbers standing for the crc32 values).
Crcs == {111, 222}

\* The size of the content with a given checksum (README table).
SizeOf(crc) == IF crc = 111 THEN 253648 ELSE 253703

Sizes == {SizeOf(c) : c \in Crcs}

\* storage.ObjectAttrs, the fields the program reads.
ObjectAttrs(n, sz, crc) == [Name |-> n, Size |-> sz, CRC32C |-> crc]

\* The source listings tried: the first n names, each with some content.
Sources ==
    UNION { { [i \in 1..n |-> ObjectAttrs(AllNames[i], SizeOf(f[i]), f[i])] :
                f \in [1..n -> Crcs] } : n \in 0..MaxObjs }

\* strings.Split(attrs.Name, "/")[0]
Section(name) == name[1]

\* filepath.Dir(i.Name)
Dir(name) == SubSeq(name, 1, Len(name) - 1)

\* The row insertImage writes for an object.
Row(a) ==
    [name |-> a.Name, section |-> Section(a.Name), prefix |-> Dir(a.Name),
     size |-> a.Size, crc32 |-> a.CRC32C]

\* What tx.Exec of the CREATE TABLE statement can give: no error, the
\* PgError "42P07" (duplicate table), another PgError ("42601", the one the
\* code's comment names), or an error that is no PgError (connection lost,
\* context cancelled, timeout).
ExecResults == {"nil", "42P07", "42601", "notpg"}

\* errors.As(err, &pgErr)
IsPgError(e) == e \in {"42P07", "42601"}

\* Start has not run its schema transaction (or is past it, in the loop).
NoInitErr == [stmt |-> "none", ret |-> "none"]

\* -------------------------------------------------------------- the state
VARIABLES
    src,        \* the source bucket's listing, a sequence of ObjectAttrs
    index,      \* the images table: a bag of rows
    dst,        \* the destination bucket: a set of [name, crc32]
    pc,         \* per process: where its Start goroutine / process is
    Ready,      \* per process: svc.Ready
    Limit,      \* per process: svc.Limit
    idx,        \* per process: Start's idx
    pos,        \* per process: how many objects the iterator b has returned
    attrs,      \* per process: <<>> (nil) or <<the ObjectAttrs Next returned>>
    count,      \* per process: processImage's count
    reason,     \* per process: how the loop was left
    sig,        \* per process: progress of main's signal goroutine
    log,        \* per process: what processImage reported, one entry per call
    runs,       \* instances constructed (and Start calls repeated) so far
    prevClean,  \* history: the run before this one was complete and failure free
    dstSnap,    \* history: the destination bucket when that run had ended
    conflict,   \* history: the last insert found its name in the table
    initErr     \* per process: the schema statement's error and what Start got back

vars == <<src, index, dst, pc, Ready, Limit, idx, pos, attrs, count, reason,
          sig, log, runs, prevClean, dstSnap, conflict, initErr>>

\* A process that is not running: never started, exited, or died in a panic.
Dead == {"none", "exited", "panicked"}

\* ------------------------------------------------- the index (images table)

\* The distinct rows of the table.
Rows(ix) == BagToSet(ix)

\* INSERT ... ON CONFLICT (name) DO NOTHING
insertImageNoConflictCheck(ix, row) == ix (+) SetToBag({row})

insertImageUpsert(ix, row) ==
    [r \in {x \in Rows(ix) : x.name # row.name} |-> ix[r]] (+) SetToBag({row})

insertImageSkipDuplicates(ix, row) ==
    IF \E r \in Rows(ix) : r.name = row.name \/ r.crc32 = row.crc32
    THEN ix ELSE ix (+) SetToBag({row})

insertImage(ix, row) ==
    IF \E r \in Rows(ix) : r.name = row.name THEN ix ELSE ix (+) SetToBag({row})

\* SELECT COUNT(*) FROM images WHERE crc32 = $1
getImageCountZero(ix, crc32) == 0

getImageCount(ix, crc32) ==
    BagCardinality([r \in {x \in Rows(ix) : x.crc32 = crc32} |-> ix[r]])

\* ------------------------------------------------------ the conditional copy

DstNames(d) == {o.name : o \in d}

\* dstObj.If(storage.Conditions{DoesNotExist: true}) ... CopierFrom(srcObj).Run
CopyPreconditionNone(d, name) == TRUE

CopyPrecondition(d, name) == name \notin DstNames(d)

\* ------------------------------------------------------------- the metrics

\* objectProcessed is a CounterVec over these two labels.
LabelNames == {"status", "operation"}

\* CounterVec.With panics unless the labels given are exactly the vec's.
WithOK(labels) == DOMAIN labels = LabelNames

\* Where control goes after objectProcessed.With(labels).Inc() and what the
\* code does next (nextpc).
MetricThen(labels, nextpc) == IF WithOK(labels) THEN nextpc ELSE "panicked"

\* ---------------------------------------------------- decisions of the code

\* if svc.Limit != 0 && idx > svc.Limit
LimitReachedOffByOne(limit, i) == limit # 0 /\ i >= limit

LimitReached(limit, i) == limit # 0 /\ i > limit

\* if count == 0
IsNewInverted(cnt) == cnt # 0

IsNew(cnt) == cnt = 0

\* prometheus.Labels{"status": "error"}, as given after a failed count and
\* after a failed insert.
ErrorLabels == [status |-> "error"]

\* prometheus.Labels{"status": "error", "operation": "copy"}
CopyErrorLabels == [status |-> "error", operation |-> "copy"]

\* prometheus.Labels{"status": "success", "operation": operation}
SuccessLabels(op) == [status |-> "success", operation |-> op]

\* insertImage failed: count the error, return.
InsertFailPcFallThrough(cnt) == IF IsNew(cnt) THEN "copy" ELSE "loop"

InsertFailPc(cnt) == MetricThen(ErrorLabels, "loop")

\* getImageCount failed: count the error, return.
CountFailPc == MetricThen(ErrorLabels, "loop")

\* the copy failed: count the error, return.
CopyFailPc == MetricThen(CopyErrorLabels, "loop")

\* the last line of processImage: count the success, return.
SuccessPc(op) == MetricThen(SuccessLabels(op), "loop")

\* ----------------------------------------------------------------- helpers
Cancelled(p) == sig[p] # "none"

\* A call of processImage under way: the object, whether the index knew its
\* fingerprint, the count read, and nothing reported yet.
Entry(a, known, cnt) ==
    [name |-> a.Name, crc32 |-> a.CRC32C, known |-> known, count |-> cnt,
     status |-> "none", operation |-> "skip", err |-> "none", counted |-> FALSE,
     interrupted |-> FALSE]

\* The call that failed was made with the context main has cancelled: every
\* database and storage call of processImage takes svc.Context, the context
\* main's cancel() cancels, and fails on it once it is cancelled.
Interrupted(p, err) == err # "none" /\ Cancelled(p)

\* The entry of a call that has ended with objectProcessed.With(labels).Inc():
\* the labels it gave, and whether the counter was incremented.
Done(e, labels, err) ==
    [e EXCEPT !.status = labels.status,
              !.operation = IF "operation" \in DOMAIN labels
                            THEN labels.operation ELSE "none",
              !.err = err,
              !.counted = WithOK(labels)]

\* The run of p that has just ended was complete and free of failures.
CleanComplete(p) ==
    /\ pc[p] = "exited"
    /\ reason[p] = "done"
    /\ Limit[p] = 0
    /\ Len(log[p]) = Len(src)
    /\ \A i \in 1..Len(log[p]) : log[p][i].err = "none"

\* ------------------------------------------------------------------- Init
Init ==
    /\ src \in Sources
    /\ index = EmptyBag
    /\ dst = {}
    /\ pc = [p \in Procs |-> "none"]
    /\ Ready = [p \in Procs |-> FALSE]
    /\ Limit = [p \in Procs |-> 0]
    /\ idx = [p \in Procs |-> 0]
    /\ pos = [p \in Procs |-> 0]
    /\ attrs = [p \in Procs |-> <<>>]
    /\ count = [p \in Procs |-> 0]
    /\ reason = [p \in Procs |-> "none"]
    /\ sig = [p \in Procs |-> "none"]
    /\ log = [p \in Procs |-> <<>>]
    /\ runs = 0
    /\ prevClean = FALSE
    /\ dstSnap = {}
    /\ conflict = FALSE
    /\ initErr = [p \in Procs |-> NoInitErr]


\* ---------------------------------------------------------------- actions

\* main: svc := NewSvc(ctx, client, roach, &svcOpts) in a new process, with
\* the -limit flag as given.  The instance starts with Ready false.
NewSvc(p) ==
    /\ pc[p] \in Dead
    /\ runs < MaxRuns
    /\ \E lim \in 0..MaxLimit : Limit' = [Limit EXCEPT ![p] = lim]
    /\ pc' = [pc EXCEPT ![p] = "new"]
    /\ Ready' = [Ready EXCEPT ![p] = FALSE]
    /\ idx' = [idx EXCEPT ![p] = 0]
    /\ pos' = [pos EXCEPT ![p] = 0]
    /\ attrs' = [attrs EXCEPT ![p] = <<>>]
    /\ count' = [count EXCEPT ![p] = 0]
    /\ reason' = [reason EXCEPT ![p] = "none"]
    /\ sig' = [sig EXCEPT ![p] = "none"]
    /\ log' = [log EXCEPT ![p] = <<>>]
    /\ runs' = runs + 1
    /\ prevClean' = CleanComplete(p)
    /\ dstSnap' = IF CleanComplete(p) THEN dst ELSE {}
    /\ initErr' = [initErr EXCEPT ![p] = NoInitErr]
    /\ UNCHANGED <<src, index, dst, conflict>>

\* initTable: what it returns when tx.Exec gave e.  The error is returned
\* only inside the errors.As branch: an error that is no *pgconn.PgError
\* falls through to the "image table created" log line and return nil.
initTableReturns(e) ==
    IF e # "nil" /\ IsPgError(e) /\ e # "42P07" THEN e ELSE "nil"

\* Start, up to the schema transaction: crdbpgx.ExecuteTx runs initTable and
\* returns its error, or commits, which may fail in its turn.  Start returns
\* ExecuteTx's error if it is one.
initTable(p) ==
    /\ pc[p] = "new"
    /\ \E e \in IF Cancelled(p) THEN {"notpg"} ELSE ExecResults,
          commits \in IF Cancelled(p) THEN {FALSE} ELSE BOOLEAN :
          LET r == initTableReturns(e)
              ret == IF r # "nil" THEN r ELSE IF commits THEN "nil" ELSE "commit"
          IN /\ pc' = [pc EXCEPT ![p] = IF ret = "nil" THEN "setready" ELSE "failed"]
             /\ initErr' = [initErr EXCEPT ![p] = [stmt |-> e, ret |-> ret]]
    /\ UNCHANGED <<src, index, dst, Ready, Limit, idx, pos, attrs, count,
                   reason, sig, log, runs, prevClean, dstSnap, conflict>>

\* svc.Ready = true
SetReady(p) ==
    /\ pc[p] = "setready"
    /\ Ready' = [Ready EXCEPT ![p] = TRUE]
    /\ pc' = [pc EXCEPT ![p] = "loop"]
    /\ UNCHANGED <<src, index, dst, Limit, idx, pos, attrs, count, reason,
                   sig, log, runs, prevClean, dstSnap, conflict,
                   initErr>>

\* for svc.Ready { idx++; if svc.Limit != 0 && idx > svc.Limit { break } ...
\* svc.Ready is read here and written by Stop in another goroutine with no
\* synchronisation: the read gives the last write in some order of the two
\* goroutines' steps, which is what the interleaving of the actions gives.
LoopHead(p) ==
    /\ pc[p] = "loop"
    /\ initErr' = [initErr EXCEPT ![p] = NoInitErr]
    /\ IF ~Ready[p]
       THEN /\ pc' = [pc EXCEPT ![p] = "returned"]
            /\ reason' = [reason EXCEPT ![p] = "stop"]
            /\ UNCHANGED idx
       ELSE /\ idx' = [idx EXCEPT ![p] = idx[p] + 1]
            /\ IF LimitReached(Limit[p], idx[p] + 1)
               THEN /\ pc' = [pc EXCEPT ![p] = "returned"]
                    /\ reason' = [reason EXCEPT ![p] = "limit"]
               ELSE /\ pc' = [pc EXCEPT ![p] = "next"]
                    /\ UNCHANGED reason
    /\ UNCHANGED <<src, index, dst, Ready, Limit, pos, attrs, count, sig, log,
                   runs, prevClean, dstSnap, conflict>>

\* attrs, err := b.Next(): the next object, iterator.Done, or another error.
\* Done breaks the loop; any other error is logged and control goes on to
\* processImage with the attrs Next returned with it, nil.
NextObject(p) ==
    /\ pc[p] = "next"
    /\ \/ /\ pos[p] < Len(src)
          /\ attrs' = [attrs EXCEPT ![p] = <<src[pos[p] + 1]>>]
          /\ pos' = [pos EXCEPT ![p] = pos[p] + 1]
          /\ pc' = [pc EXCEPT ![p] = "process"]
          /\ UNCHANGED reason
       \/ /\ pos[p] = Len(src)
          /\ pc' = [pc EXCEPT ![p] = "returned"]
          /\ reason' = [reason EXCEPT ![p] = "done"]
          /\ UNCHANGED <<attrs, pos>>
       \/ /\ attrs' = [attrs EXCEPT ![p] = <<>>]
          /\ pc' = [pc EXCEPT ![p] = "process"]
          /\ UNCHANGED <<reason, pos>>
    /\ UNCHANGED <<src, index, dst, Ready, Limit, idx, count, sig, log, runs,
                   prevClean, dstSnap, conflict,
                   initErr>>

\* processImage has come to nextpc: when that is its return, its locals and
\* the loop body's attrs are gone.
Locals(p, nextpc, cnt) ==
    /\ pc' = [pc EXCEPT ![p] = nextpc]
    /\ count' = [count EXCEPT ![p] = IF nextpc = "loop" THEN 0 ELSE cnt]
    /\ attrs' = [attrs EXCEPT ![p] = IF nextpc = "loop" THEN <<>> ELSE @]

\* The entry of the object in hand, completed.
Report(p, labels, err) ==
    [log EXCEPT ![p][Len(log[p])] =
        [Done(@, labels, err) EXCEPT !.interrupted = Interrupted(p, err)]]

\* processImage, to the end of the count: attrs.Name on nil attrs panics;
\* getImageCount either gives the count or fails, and the failure is counted
\* with the status label alone.
ProcessCount(p) ==
    /\ pc[p] = "process"
    /\ IF attrs[p] = <<>>
       THEN /\ Locals(p, "panicked", 0)
            /\ UNCHANGED log
       ELSE LET a == attrs[p][1]
                known == \E r \in Rows(index) : r.crc32 = a.CRC32C
                cnt == getImageCount(index, a.CRC32C)
            IN \E ok \in IF Cancelled(p) THEN {FALSE} ELSE BOOLEAN :
                 IF ok
                 THEN /\ Locals(p, "insert", cnt)
                      /\ log' = [log EXCEPT ![p] = Append(@,
                                   Entry(a, known, cnt))]
                 ELSE /\ Locals(p, CountFailPc, 0)
                      /\ log' = [log EXCEPT ![p] = Append(@,
                                   [Done(Entry(a, known, 0), ErrorLabels, "count")
                                       EXCEPT !.interrupted = Interrupted(p, "count")])]
    /\ UNCHANGED <<src, index, dst, Ready, Limit, idx, pos, reason, sig, runs,
                   prevClean, dstSnap, conflict,
                   initErr>>

\* processImage, the insert and the decision that follows it.
ProcessInsert(p) ==
    /\ pc[p] = "insert"
    /\ LET a == attrs[p][1]
       IN \E ok \in IF Cancelled(p) THEN {FALSE} ELSE BOOLEAN :
            IF ok
            THEN /\ index' = insertImage(index, Row(a))
                 /\ conflict' = (\E r \in Rows(index) : r.name = a.Name)
                 /\ IF IsNew(count[p])
                    THEN /\ Locals(p, "copy", count[p])
                         /\ UNCHANGED log
                    ELSE /\ Locals(p, SuccessPc("skip"), count[p])
                         /\ log' = Report(p, SuccessLabels("skip"), "none")
            ELSE /\ Locals(p, InsertFailPc(count[p]), count[p])
                 /\ log' = Report(p, ErrorLabels, "insert")
                 /\ UNCHANGED <<index, conflict>>
    /\ UNCHANGED <<src, dst, Ready, Limit, idx, pos, reason, sig, runs,
                   prevClean, dstSnap,
                   initErr>>

\* processImage, the copy: dst.Object(name).If(DoesNotExist).CopierFrom(src).Run
\* writes the object when no object of that name is there, and fails otherwise;
\* it may fail for other reasons too.
ProcessCopy(p) ==
    /\ pc[p] = "copy"
    /\ LET a == attrs[p][1]
       IN \/ /\ ~Cancelled(p)
             /\ CopyPrecondition(dst, a.Name)
             /\ dst' = dst \cup {[name |-> a.Name, crc32 |-> a.CRC32C]}
             /\ Locals(p, SuccessPc("copy"), count[p])
             /\ log' = Report(p, SuccessLabels("copy"), "none")
          \/ /\ ~Cancelled(p)
             /\ ~CopyPrecondition(dst, a.Name)
             /\ Locals(p, CopyFailPc, count[p])
             /\ log' = Report(p, CopyErrorLabels, "precondition")
             /\ UNCHANGED dst
          \/ /\ Locals(p, CopyFailPc, count[p])
             /\ log' = Report(p, CopyErrorLabels, "copy")
             /\ UNCHANGED dst
    /\ UNCHANGED <<src, index, Ready, Limit, idx, pos, reason, sig, runs,
                   prevClean, dstSnap, conflict,
                   initErr>>

\* main: Start has returned; os.Exit(exitCodeSuccess) or os.Exit(exitCodeErr).
Exit(p) ==
    /\ pc[p] \in {"returned", "failed"}
    /\ pc' = [pc EXCEPT ![p] = "exited"]
    /\ UNCHANGED <<src, index, dst, Ready, Limit, idx, pos, attrs, count,
                   reason, sig, log, runs, prevClean, dstSnap, conflict,
                   initErr>>

\* main's signal goroutine, first signal: cancel()
Cancel(p) ==
    /\ pc[p] \notin Dead
    /\ sig[p] = "none"
    /\ sig' = [sig EXCEPT ![p] = "cancelled"]
    /\ UNCHANGED <<src, index, dst, pc, Ready, Limit, idx, pos, attrs, count,
                   reason, log, runs, prevClean, dstSnap, conflict,
                   initErr>>

\* ... then svc.Stop(): svc.Ready = false
Stop(p) ==
    /\ pc[p] \notin Dead
    /\ sig[p] = "cancelled"
    /\ sig' = [sig EXCEPT ![p] = "stopped"]
    /\ Ready' = [Ready EXCEPT ![p] = FALSE]
    /\ UNCHANGED <<src, index, dst, pc, Limit, idx, pos, attrs, count, reason,
                   log, runs, prevClean, dstSnap, conflict,
                   initErr>>

\* second signal: os.Exit(exitCodeInterrupt)
HardExit(p) ==
    /\ pc[p] \notin Dead
    /\ sig[p] = "stopped"
    /\ pc' = [pc EXCEPT ![p] = "exited"]
    /\ UNCHANGED <<src, index, dst, Ready, Limit, idx, pos, attrs, count,
                   reason, sig, log, runs, prevClean, dstSnap,
                   initErr>>
    /\ UNCHANGED conflict

\* What one process does between its construction and its end.
Run(p) ==
    \/ initTable(p)
    \/ SetReady(p)
    \/ LoopHead(p)
    \/ NextObject(p)
    \/ ProcessCount(p)
    \/ ProcessInsert(p)
    \/ ProcessCopy(p)
    \/ Exit(p)

\* main's signal goroutine.
Signal(p) ==
    \/ Cancel(p)
    \/ Stop(p)
    \/ HardExit(p)

\* One process at a time: every run is a fresh instance in a new process 1,
\* started when the one before has ended.
Next == NewSvc(1) \/ Run(1) \/ Signal(1)

Spec == Init /\ [][Next]_vars

\* Two processes side by side on the same buckets and table, one run each,
\* both without -limit.
FirstRun(p) == pc[p] = "none" /\ NewSvc(p) /\ Limit'[p] = 0

NextPair == \E p \in Procs : FirstRun(p) \/ Run(p)

SpecPair == Init /\ [][NextPair]_vars

\* The Service interface used directly: Start called again on an instance
\* whose Start has returned.  Start begins anew (idx := 0, a new iterator) and
\* does not look at what the instance has been through.
StartAgain(p) ==
    /\ pc[p] = "returned"
    /\ runs < MaxRuns
    /\ runs' = runs + 1
    /\ pc' = [pc EXCEPT ![p] = "new"]
    /\ idx' = [idx EXCEPT ![p] = 0]
    /\ pos' = [pos EXCEPT ![p] = 0]
    /\ UNCHANGED <<src, index, dst, Ready, Limit, attrs, count, reason, sig,
                   log, prevClean, dstSnap, conflict,
                   initErr>>

\* The Service interface used directly: Stop() called by any caller, at any
\* time in the life of the instance.
StopCall(p) ==
    /\ pc[p] \notin Dead
    /\ Ready' = [Ready EXCEPT ![p] = FALSE]
    /\ UNCHANGED <<src, index, dst, pc, Limit, idx, pos, attrs, count, reason,
                   sig, log, runs, prevClean, dstSnap, conflict,
                   initErr>>

\* One instance under any sequence of Start and Stop calls.
NextService == NewSvc(1) \/ Run(1) \/ StartAgain(1) \/ StopCall(1)

SpecService == Init /\ [][NextService]_vars

\* insertImage on its own: any object attributes, against any table that
\* earlier inserts have built.
InsertCall ==
    /\ \E i \in 1..MaxObjs, sz \in Sizes, c \in Crcs :
          LET a == ObjectAttrs(AllNames[i], sz, c)
          IN /\ index' = insertImage(index, Row(a))
             /\ conflict' = (\E r \in Rows(index) : r.name = a.Name)
    /\ UNCHANGED <<src, dst, pc, Ready, Limit, idx, pos, attrs, count, reason,
                   sig, log, runs, prevClean, dstSnap,
                   initErr>>

InitInsert == Init /\ src = <<>>

SpecInsert == InitInsert /\ [][InsertCall]_vars

\* ------------------------------------------------------------------ claims

Min(a, b) == IF a < b THEN a ELSE b

\* The entries of p's log that are finished (processImage has reported).
Finished(p, i) == log[p][i].status # "none"

\* Entry i of p's log went through without any failure.
NoFailure(p, i) == Finished(p, i) /\ log[p][i].err = "none"

\* A then B of C1: two objects of one run, distinct names, the same
\* fingerprint, the first met when the index held no record with it, both
\* processed without failure.
PairAB(p, i, j) ==
    /\ i < j
    /\ log[p][i].crc32 = log[p][j].crc32
    /\ log[p][i].name # log[p][j].name
    /\ ~log[p][i].known
    /\ NoFailure(p, i)
    /\ NoFailure(p, j)

\* C1: in one instance, with no record of fingerprint f in the index, objects
\* A then B with fingerprint f and no failure give Success-Copy for A and
\* Success-Skip for B: one copy, of the object listed first.
C1_FirstCopiedSecondSkipped ==
    \A p \in Procs : \A i, j \in 1..Len(log[p]) :
        PairAB(p, i, j) =>
            /\ log[p][i].status = "success" /\ log[p][i].operation = "copy"
            /\ log[p][j].status = "success" /\ log[p][j].operation = "skip"

C1_Witness ==
    \E i, j \in 1..Len(log[1]) :
        /\ PairAB(1, i, j)
        /\ log[1][i].operation = "copy"
        /\ log[1][j].operation = "skip"
        /\ Cardinality({o \in dst : o.crc32 = log[1][i].crc32}) = 1

\* C2 (as claimed): once a run has iterated the whole source, the destination
\* holds exactly one object for every fingerprint recorded in the index.
C2_OneObjectPerFingerprint ==
    \A p \in Procs :
        (pc[p] = "returned" /\ reason[p] = "done") =>
            \A f \in {r.crc32 : r \in Rows(index)} :
                Cardinality({o \in dst : o.crc32 = f}) = 1

\* C3 (as claimed): a copy that fails because the destination object exists
\* is counted with status success, never error.
C3_PreconditionFailureIsSuccess ==
    \A p \in Procs : \A i \in 1..Len(log[p]) :
        log[p][i].err = "precondition" => log[p][i].status = "success"

\* C4: every object in the destination bucket has an index row of its name,
\* and the copy of an object is issued only when its insert has succeeded.
C4_CopiedHasIndexRow ==
    /\ \A o \in dst : \E r \in Rows(index) : r.name = o.name
    /\ \A p \in Procs :
          pc[p] = "copy" =>
             /\ \E r \in Rows(index) : r.name = attrs[p][1].Name
             /\ log[p][Len(log[p])].err = "none"

C4_Witness ==
    /\ dst # {}
    /\ pc[1] = "copy"
    /\ attrs[1][1].Name \notin DstNames(dst)

\* C5: an insert whose name is in the index leaves the index as it is, and
\* the index never holds two records of one name.
C5_InsertIdempotent ==
    /\ [](\A r1, r2 \in Rows(index) :
            /\ CopiesIn(r1, index) = 1
            /\ r1.name = r2.name => r1 = r2)
    /\ [][conflict' => index' = index]_vars

C5_Witness ==
    /\ conflict
    /\ \E r \in Rows(index) : r.name = AllNames[1] /\ r.crc32 = 111
    /\ Cardinality(Rows(index)) >= 2

\* C6: after a complete run with limit 0 and no failure, a second run over
\* the same source leaves the destination as it was and writes nothing.
C6_SecondRunWritesNothing ==
    prevClean =>
        /\ dst = dstSnap
        /\ \A p \in Procs : \A i \in 1..Len(log[p]) :
              ~(log[p][i].status = "success" /\ log[p][i].operation = "copy")

C6_Witness ==
    /\ prevClean
    /\ pc[1] = "returned" /\ reason[1] = "done" /\ Limit[1] = 0
    /\ Len(src) >= 2
    /\ Len(log[1]) = Len(src)
    /\ \A i \in 1..Len(log[1]) : NoFailure(1, i)
    /\ dst # {}

\* C7: a run that leaves the loop by the limit or by exhaustion has passed
\* min(Limit, M) objects to processImage (all M with limit 0), and no run
\* passes more than Limit.
C7_LimitEnforced ==
    \A p \in Procs :
        /\ Limit[p] # 0 => Len(log[p]) <= Limit[p]
        /\ (pc[p] = "returned" /\ reason[p] \in {"limit", "done"}) =>
              Len(log[p]) = IF Limit[p] = 0 THEN Len(src)
                            ELSE Min(Limit[p], Len(src))

C7_Witness ==
    /\ pc[1] = "returned" /\ reason[1] = "limit"
    /\ Limit[1] = 2
    /\ Len(log[1]) = 2
    /\ pos[1] < Len(src)

\* C8 (as claimed): after a listing error processImage is not invoked for
\* that iteration.
C8_ListingErrorSkipsItem ==
    \A p \in Procs : ~(pc[p] = "process" /\ attrs[p] = <<>>)

\* C9 (as claimed): a failure of the count, the insert or the copy of one
\* object never ends the run: processImage returns normally.
C9_FailureAbortsOnlyObject ==
    \A p \in Procs :
        (Len(log[p]) > 0 /\ attrs[p] # <<>> /\
         log[p][Len(log[p])].err \in {"count", "insert", "copy", "precondition"})
            => pc[p] # "panicked"

\* C10 (as claimed): IsReady() is true exactly while the loop runs: false
\* before the schema is initialised, false once the loop has ended.
C10_ReadyIffRunning ==
    \A p \in Procs :
        /\ pc[p] \in {"new", "setready", "failed"} => ~Ready[p]
        /\ pc[p] = "returned" => ~Ready[p]
        /\ (pc[p] \in {"loop", "next", "process", "insert", "copy"}
              /\ sig[p] # "stopped") => Ready[p]

\* C11 (as claimed): an instance that has been Running and is Stopped stays
\* Stopped under any Start and Stop calls: IsReady() is never true again and
\* it processes no further object.
C11_StoppedIsTerminal ==
    [][\A p \in Procs :
          (pc[p] \notin Dead /\ reason[p] # "none" /\ ~Ready[p]) =>
              (~Ready'[p] /\ log'[p] = log[p])]_vars

\* C12 (as claimed): a stop issued at any point of a running Start takes
\* effect: once Stop() has returned the controller is Stopped (Ready false)
\* for as long as the instance lives.
C12_StopTakesEffect ==
    \A p \in Procs : (sig[p] = "stopped" /\ pc[p] \notin Dead) => ~Ready[p]

\* C13 (as claimed): when the schema statement fails with an error other than
\* the table existing, Start returns that error and never sets Ready.
C13_InitFailureReturned ==
    \A p \in Procs :
        initErr[p].stmt \notin {"none", "nil", "42P07"} =>
            /\ initErr[p].ret = initErr[p].stmt
            /\ pc[p] \notin {"setready", "loop"}
            /\ ~Ready[p]

\* The calls of processImage, over both processes, that wrote the destination
\* object of the given name.
Writes(name) ==
    {<<p, i>> \in Procs \X (1..MaxObjs) :
        /\ i <= Len(log[p])
        /\ log[p][i].name = name
        /\ log[p][i].status = "success"
        /\ log[p][i].operation = "copy"}

\* C14: with two instances running side by side on the same buckets and
\* table, under every interleaving the table holds one row per name and the
\* destination object of a name is written at most once.
C14_ConcurrentRunsSafe ==
    /\ \A r1, r2 \in Rows(index) :
          /\ CopiesIn(r1, index) = 1
          /\ r1.name = r2.name => r1 = r2
    /\ \A n \in DstNames(dst) : Cardinality(Writes(n)) = 1
    /\ \A i \in 1..Len(src) : Cardinality(Writes(src[i].Name)) <= 1

\* Both instances have taken the same object as new, both inserts went
\* through, one copy wrote the object and the other met it.
C14_Witness ==
    \E i \in 1..Len(log[1]), j \in 1..Len(log[2]) :
        /\ log[1][i].name = log[2][j].name
        /\ log[1][i].count = 0 /\ log[2][j].count = 0
        /\ ~log[1][i].known /\ ~log[2][j].known
        /\ log[1][i].status = "success" /\ log[1][i].operation = "copy"
        /\ log[2][j].err = "precondition"
        /\ Cardinality(Rows(index)) >= 2

\* C15 (as claimed): every call of processImage that has ended has
\* incremented objects_processed, with a status of success or error and an
\* operation of copy or skip.
C15_CountedOnEveryPath ==
    \A p \in Procs : \A i \in 1..Len(log[p]) :
        Finished(p, i) =>
            /\ log[p][i].counted
            /\ log[p][i].status \in {"success", "error"}
            /\ log[p][i].operation \in {"copy", "skip"}

\* C16 (as claimed): a run that has entered the loop leaves it only by
\* returning from Start, on exhaustion, on the limit or on a stop; listing
\* errors and failed calls do not end it any other way.
C16_LoopEndsOnlyByReturn ==
    \A p \in Procs :
        /\ pc[p] # "panicked"
        /\ pc[p] = "returned" => reason[p] \in {"done", "limit", "stop"}

\* C17: when a run with limit 0 has exhausted the iterator with no index
\* failure, the index holds the row of every object of the source, those
\* whose fingerprint was already recorded included.
C17_EveryObjectRecorded ==
    \A p \in Procs :
        (/\ pc[p] = "returned" /\ reason[p] = "done" /\ Limit[p] = 0
         /\ \A i \in 1..Len(log[p]) : log[p][i].err \notin {"count", "insert"})
            => \A k \in 1..Len(src) : Row(src[k]) \in Rows(index)

\* Such a run has ended, and it has skipped the copy of an object whose
\* fingerprint it found in the index, and the row of that object is there.
C17_Witness ==
    /\ pc[1] = "returned" /\ reason[1] = "done" /\ Limit[1] = 0
    /\ Len(log[1]) = Len(src)
    /\ \E i \in 1..Len(log[1]) :
          /\ log[1][i].count > 0
          /\ log[1][i].status = "success" /\ log[1][i].operation = "skip"
          /\ Row(src[i]) \in Rows(index)
          /\ log[1][i].name \notin DstNames(dst)

\* The step in which p's call of processImage ends on a failed count.
CountFailed(p) ==
    /\ Len(log'[p]) = Len(log[p]) + 1
    /\ log'[p][Len(log'[p])].err = "count"

\* C18 (as claimed): a call of processImage whose count fails changes neither
\* the index nor the destination, goes no further with the object, and
\* records the outcome Error in objects_processed.
C18_CountFailureChangesNothing ==
    [][\A p \in Procs :
          CountFailed(p) =>
              /\ index' = index
              /\ dst' = dst
              /\ pc'[p] \notin {"insert", "copy"}
              /\ log'[p][Len(log'[p])].status = "error"
              /\ log'[p][Len(log'[p])].counted]_vars

\* C19 (as claimed): the first interrupt signal interrupts no call of the
\* object in hand: an object whose count had been read when the signal came
\* has its insert and its copy end as they would have without the signal,
\* never failed by it.
C19_StopLeavesCallsAlone ==
    \A p \in Procs : \A i \in 1..Len(log[p]) :
        log[p][i].err \in {"insert", "copy"} => ~log[p][i].interrupted

=============================================================================
